---- MODULE Spec2Model ----
(***************************************************************************)
(* Model of the personal-AI-assistant vector-store client                  *)
(* (src/src/qdrant_client.py, src/src/utils.py, src/setup_profile.py).     *)
(*                                                                         *)
(* The state is the content of the external vector store together with a   *)
(* record of the last operation that ran: its arguments, its outcome, the  *)
(* external calls it issued and the store it started from.                 *)
(*                                                                         *)
(* Python values: a bool result is "True" / "False"; an exception that     *)
(* leaves the function is "Raise"; a list result is "List".                *)
(* Strings are TLA+ strings, so f-string concatenation is \o.              *)
(***************************************************************************)
EXTENDS Integers, Sequences, FiniteSets, TLC

(***************************************************************************)
(* Bounds of the model                                                     *)
(***************************************************************************)
MaxBlocks == 2      \* longest profile array
MaxConv   == 2      \* add_conversation calls in one behaviour
MaxLimit  == 2      \* largest search limit tried

(***************************************************************************)
(* Program constants                                                       *)
(***************************************************************************)
VECTOR_SIZE == 768
DEFAULT_SEARCH_LIMIT == 3

\* the fixed distance passed to the store (Distance.COSINE)
COSINE == "Cosine"

\* vector sizes a caller may pass to create_collection, and lengths the
\* embedding service may answer with
VectorSizes == {VECTOR_SIZE, VECTOR_SIZE \div 2}

(***************************************************************************)
(* Input domains                                                           *)
(***************************************************************************)
Users == {"a", "a_b"}
BaseNames == {"profile", "conversations"}
\* collection_type is an unconstrained str argument of search_similar
CollectionTypes == BaseNames \cup {"b_profile"}
Texts == {"cat", "horse"}
Categories == {"bio"}
UserMessages == {"hi", "hey"}
AssistantResponses == {"ok"}
Limits == 0..MaxLimit \cup {DEFAULT_SEARCH_LIMIT}

\* a well-formed profile block, and an array element without "text"
Blocks == {[id |-> 1, text |-> "cat", category |-> "bio"],
           [id |-> 2, text |-> "horse", category |-> "bio"]}
BadBlocks == [id : {1}, category : Categories]

RECURSIVE SeqsUpTo(_, _)
SeqsUpTo(S, n) ==
    IF n = 0 THEN {<<>>}
    ELSE LET shorter == SeqsUpTo(S, n - 1)
         IN  shorter \cup {Append(s, x) : s \in {t \in shorter : Len(t) = n - 1}, x \in S}

\* what lies at the json_file path: nothing, text that is not JSON, something
\* open()/read cannot deliver (a directory, no permission, bytes that are not
\* UTF-8), or a JSON array
ProfileFiles == {[kind |-> "json", value |-> v] : v \in SeqsUpTo(Blocks, MaxBlocks)}
MalformedFiles == {[kind |-> "json", value |-> <<b>>] : b \in BadBlocks}
BrokenFiles == {[kind |-> k, value |-> <<>>] : k \in {"missing", "invalid", "unreadable"}}
Files == ProfileFiles \cup MalformedFiles \cup BrokenFiles
NoFile == [kind |-> "missing", value |-> <<>>]

\* answers of the embedding endpoint: a 768-float embedding, a transport or
\* HTTP error, a body without 'embedding', an embedding of another length
Responses == {"ok", "neterr", "nofield", "short"}

(***************************************************************************)
(* src/src/utils.py                                                        *)
(***************************************************************************)
\* os.path.exists: true for anything present at the path
path_exists(file) == file.kind # "missing"

\* open() + json.load(); only FileNotFoundError and JSONDecodeError are caught
validate_json_file(file) ==
    CASE file.kind = "json"       -> [exc |-> FALSE, val |-> TRUE]
      [] file.kind = "missing"    -> [exc |-> FALSE, val |-> FALSE]
      [] file.kind = "invalid"    -> [exc |-> FALSE, val |-> FALSE]
      [] file.kind = "unreadable" -> [exc |-> TRUE,  val |-> FALSE]

\* same read; the two caught errors are re-raised as Exception
load_blocks_from_json(file) ==
    IF file.kind = "json" THEN [exc |-> FALSE, val |-> file.value]
    ELSE [exc |-> TRUE, val |-> <<>>]

(***************************************************************************)
(* The embedding service and the vector store, as the client calls them    *)
(***************************************************************************)
\* the model's answer is a function of the prompt; a vector is its length
\* and a direction
EmbeddingOf(text, resp) ==
    [dim |-> IF resp = "short" THEN VECTOR_SIZE \div 2 ELSE VECTOR_SIZE,
     dir |-> Len(text) % 3]

Abs(x) == IF x < 0 THEN -x ELSE x
\* similarity of two vectors: larger is closer
Score(q, v) == 0 - Abs(q.dir - v.dir)

NoPoints == <<>>
AutoIds == {0 - i : i \in 1..MaxConv}
FreshId(pts) == CHOOSE i \in AutoIds : i \notin DOMAIN pts

Exists(st, name) == name \in DOMAIN st
PointsIn(st, name) == IF Exists(st, name) THEN st[name].points ELSE NoPoints
PointCount(st, name) == Cardinality(DOMAIN PointsIn(st, name))

\* client.create_collection: an existing name or an unreachable store raises
StoreCreate(st, name, size, distance, fail) ==
    IF fail \/ Exists(st, name) THEN [exc |-> TRUE, store |-> st]
    ELSE [exc |-> FALSE,
          store |-> [n \in DOMAIN st \cup {name} |->
                        IF n = name
                        THEN [size |-> size, distance |-> distance, points |-> NoPoints]
                        ELSE st[n]]]

\* one point after the other; a point whose id is present is replaced
RECURSIVE UpsertPoints(_, _)
UpsertPoints(pts, seq) ==
    IF seq = <<>> THEN pts
    ELSE LET p  == Head(seq)
             id == IF "id" \in DOMAIN p THEN p.id ELSE FreshId(pts)
         IN  UpsertPoints([i \in DOMAIN pts \cup {id} |->
                              IF i = id THEN [vector |-> p.vector, payload |-> p.payload]
                              ELSE pts[i]],
                          Tail(seq))

\* client.upsert: raises for a store that is unreachable or refuses the points
\* (`fail`: an id it does not take, a point without id it will not number), for
\* a missing collection and for a vector whose length is not the collection's;
\* otherwise all points are written, a point without id under a fresh id
StoreUpsert(st, name, seq, fail) ==
    IF \/ fail
       \/ ~Exists(st, name)
       \/ \E k \in 1..Len(seq) : seq[k].vector.dim # st[name].size
    THEN [exc |-> TRUE, store |-> st]
    ELSE [exc |-> FALSE,
          store |-> [st EXCEPT ![name].points = UpsertPoints(st[name].points, seq)]]

\* client.get_collection
StoreInfo(st, name, fail) ==
    IF fail \/ ~Exists(st, name) THEN [exc |-> TRUE, points_count |-> 0]
    ELSE [exc |-> FALSE, points_count |-> PointCount(st, name)]

\* a scored point as client.search returns it
Hit(st, name, q, id, with_payload) ==
    [id |-> id, collection |-> name, score |-> Score(q, st[name].points[id].vector),
     payload |-> IF with_payload THEN st[name].points[id].payload ELSE [none |-> TRUE]]

\* client.search: the `limit` nearest points, best first; ties in any order
StoreSearch(st, name, q, limit, with_payload, fail) ==
    IF fail \/ ~Exists(st, name) \/ q.dim # st[name].size
    THEN [exc |-> TRUE, results |-> {<<>>}]
    ELSE LET ids == DOMAIN st[name].points
             sc(i) == Score(q, st[name].points[i].vector)
             n == IF limit < Cardinality(ids) THEN limit ELSE Cardinality(ids)
             orders == {s \in [1..n -> ids] :
                          /\ \A i, j \in 1..n : i < j => s[i] # s[j] /\ sc(s[i]) >= sc(s[j])
                          /\ \A x \in ids : (\A i \in 1..n : s[i] # x)
                                               => \A i \in 1..n : sc(s[i]) >= sc(x)}
         IN  [exc |-> FALSE,
              results |-> {[k \in 1..n |-> Hit(st, name, q, s[k], with_payload)] : s \in orders}]

(***************************************************************************)
(* src/src/qdrant_client.py: PersonalAIQdrantClient                        *)
(***************************************************************************)
OLLAMA_URL == "http://localhost:11434"

\* one entry of an operation's call log: what was called and whether it
\* came back without an exception
Call(kind, target, ok) == [kind |-> kind, target |-> target, ok |-> ok]
Out(ret, st, calls) == [ret |-> ret, store |-> st, calls |-> calls]

_get_collection_name(user, base_name) == user \o "_" \o base_name

\* a create_collection that replaces an existing collection by an empty one
create_collection_Recreates(st, collection_name, vector_size, fail) ==
    IF fail THEN Out("False", st, {Call("create", collection_name, FALSE)})
    ELSE Out("True",
             [n \in DOMAIN st \cup {collection_name} |->
                 IF n = collection_name
                 THEN [size |-> vector_size, distance |-> COSINE, points |-> NoPoints]
                 ELSE st[n]],
             {Call("create", collection_name, TRUE)})

\* a create_collection that asks for the dot product
create_collection_Dot(st, collection_name, vector_size, fail) ==
    LET r == StoreCreate(st, collection_name, vector_size, "Dot", fail)
    IN  Out(IF r.exc THEN "False" ELSE "True", r.store,
            {Call("create", collection_name, ~r.exc)})

\* try: client.create_collection(...); return True / except Exception: return False
create_collection(st, collection_name, vector_size, fail) ==
    LET r == StoreCreate(st, collection_name, vector_size, COSINE, fail)
    IN  Out(IF r.exc THEN "False" ELSE "True", r.store,
            {Call("create", collection_name, ~r.exc)})

\* requests.post + raise_for_status + ['embedding']; both failures are raised
\* again as Exception, the returned list is not inspected
get_embedding(text, resp) ==
    CASE resp = "neterr"  -> [exc |-> TRUE,  val |-> EmbeddingOf(text, resp)]
      [] resp = "nofield" -> [exc |-> TRUE,  val |-> EmbeddingOf(text, resp)]
      [] OTHER            -> [exc |-> FALSE, val |-> EmbeddingOf(text, resp)]

\* a loop that numbers the points by their place in the file
RECURSIVE BuildPoints_IndexAsId(_, _, _, _, _)
BuildPoints_IndexAsId(blocks, resps, k, points, calls) ==
    IF k > Len(blocks) THEN [exc |-> FALSE, points |-> points, calls |-> calls]
    ELSE IF "text" \notin DOMAIN blocks[k]
    THEN [exc |-> TRUE, points |-> points, calls |-> calls]
    ELSE LET e == get_embedding(blocks[k].text, resps[k])
             log == calls \cup {Call("embed", OLLAMA_URL, ~e.exc)}
         IN  IF e.exc THEN [exc |-> TRUE, points |-> points, calls |-> log]
             ELSE BuildPoints_IndexAsId(blocks, resps, k + 1,
                      Append(points,
                             [id |-> k,
                              vector |-> e.val,
                              payload |-> [text |-> blocks[k].text,
                                           category |-> blocks[k].category]]),
                      log)

\* the for loop of upload_profile from block k on: one get_embedding per block,
\* the first exception leaves the loop
RECURSIVE BuildPoints(_, _, _, _, _)
BuildPoints(blocks, resps, k, points, calls) ==
    IF k > Len(blocks) THEN [exc |-> FALSE, points |-> points, calls |-> calls]
    ELSE IF "text" \notin DOMAIN blocks[k]
    THEN [exc |-> TRUE, points |-> points, calls |-> calls]
    ELSE LET e == get_embedding(blocks[k].text, resps[k])
             log == calls \cup {Call("embed", OLLAMA_URL, ~e.exc)}
         IN  IF e.exc THEN [exc |-> TRUE, points |-> points, calls |-> log]
             ELSE BuildPoints(blocks, resps, k + 1,
                      Append(points,
                             [id |-> blocks[k].id,
                              vector |-> e.val,
                              payload |-> [text |-> blocks[k].text,
                                           category |-> blocks[k].category]]),
                      log)

\* an upload that creates the collection before it looks at the file
upload_profile_CreatesFirst(st, user, file, createFail, resps, upsertFail) ==
    LET v == validate_json_file(file)
        collection_name == _get_collection_name(user, "profile")
        c == create_collection(st, collection_name, VECTOR_SIZE, createFail)
        l == load_blocks_from_json(file)
        b == BuildPoints(l.val, resps, 1, <<>>, {})
        u == StoreUpsert(c.store, collection_name, b.points, upsertFail)
        upsertCall == {Call("upsert", collection_name, ~u.exc)}
    IN  IF v.exc \/ ~v.val THEN Out("False", c.store, c.calls)
        ELSE IF l.exc THEN Out("False", c.store, c.calls)
        ELSE IF b.exc THEN Out("False", c.store, c.calls \cup b.calls)
        ELSE IF u.exc THEN Out("False", u.store, c.calls \cup b.calls \cup upsertCall)
        ELSE Out("True", u.store, c.calls \cup b.calls \cup upsertCall)

\* an upload that writes the points built so far when an embedding fails
upload_profile_UpsertsPrefix(st, user, file, createFail, resps, upsertFail) ==
    LET v == validate_json_file(file)
        collection_name == _get_collection_name(user, "profile")
        c == create_collection(st, collection_name, VECTOR_SIZE, createFail)
        l == load_blocks_from_json(file)
        b == BuildPoints(l.val, resps, 1, <<>>, {})
        u == StoreUpsert(c.store, collection_name, b.points, upsertFail)
        upsertCall == {Call("upsert", collection_name, ~u.exc)}
    IN  IF v.exc \/ ~v.val THEN Out("False", st, {})
        ELSE IF l.exc THEN Out("False", c.store, c.calls)
        ELSE IF b.exc THEN Out("False", u.store, c.calls \cup b.calls \cup upsertCall)
        ELSE IF u.exc THEN Out("False", u.store, c.calls \cup b.calls \cup upsertCall)
        ELSE Out("True", u.store, c.calls \cup b.calls \cup upsertCall)

upload_profile(st, user, file, createFail, resps, upsertFail) ==
    LET v == validate_json_file(file)
        collection_name == _get_collection_name(user, "profile")
        c == create_collection(st, collection_name, VECTOR_SIZE, createFail)
        l == load_blocks_from_json(file)
        b == BuildPoints(l.val, resps, 1, <<>>, {})
        u == StoreUpsert(c.store, collection_name, b.points, upsertFail)
        upsertCall == {Call("upsert", collection_name, ~u.exc)}
    IN  IF v.exc \/ ~v.val THEN Out("False", st, {})
        ELSE IF l.exc THEN Out("False", c.store, c.calls)
        ELSE IF b.exc THEN Out("False", c.store, c.calls \cup b.calls)
        ELSE IF u.exc THEN Out("False", u.store, c.calls \cup b.calls \cup upsertCall)
        ELSE Out("True", u.store, c.calls \cup b.calls \cup upsertCall)

setup_conversation_collection(st, user, createFail, infoFail) ==
    LET collection_name == _get_collection_name(user, "conversations")
        c == create_collection(st, collection_name, VECTOR_SIZE, createFail)
        info == StoreInfo(c.store, collection_name, infoFail)
        calls == c.calls \cup {Call("get", collection_name, ~info.exc)}
    IN  IF info.exc THEN Out("False", c.store, calls)
        ELSE Out("True", c.store, calls)

\* an add_conversation that creates the collection when it is missing
add_conversation_CreatesCollection(st, user, user_message, assistant_response, resp, upsertFail, now) ==
    LET collection_name == _get_collection_name(user, "conversations")
        c == create_collection(st, collection_name, VECTOR_SIZE, FALSE)
        full_text == user_message \o " " \o assistant_response
        e == get_embedding(full_text, resp)
        points == << [vector |-> e.val,
                      payload |-> [type |-> "conversation",
                                   user_message |-> user_message,
                                   assistant_response |-> assistant_response,
                                   timestamp |-> now]] >>
        u == StoreUpsert(c.store, collection_name, points, upsertFail)
        calls == {Call("embed", OLLAMA_URL, ~e.exc), Call("upsert", collection_name, ~u.exc)}
    IN  IF e.exc THEN Out("False", c.store, {Call("embed", OLLAMA_URL, FALSE)})
        ELSE IF u.exc THEN Out("False", u.store, calls)
        ELSE Out("True", u.store, calls)

add_conversation(st, user, user_message, assistant_response, resp, upsertFail, now) ==
    LET collection_name == _get_collection_name(user, "conversations")
        full_text == user_message \o " " \o assistant_response
        e == get_embedding(full_text, resp)
        points == << [vector |-> e.val,
                      payload |-> [type |-> "conversation",
                                   user_message |-> user_message,
                                   assistant_response |-> assistant_response,
                                   timestamp |-> now]] >>
        u == StoreUpsert(st, collection_name, points, upsertFail)
        calls == {Call("embed", OLLAMA_URL, ~e.exc), Call("upsert", collection_name, ~u.exc)}
    IN  IF e.exc THEN Out("False", st, {Call("embed", OLLAMA_URL, FALSE)})
        ELSE IF u.exc THEN Out("False", u.store, calls)
        ELSE Out("True", u.store, calls)

\* a search that asks the store for one result more
search_similar_LimitPlusOne(st, user, collection_type, query_text, limit, resp, searchFail) ==
    LET collection_name == _get_collection_name(user, collection_type)
        e == get_embedding(query_text, resp)
        r == StoreSearch(st, collection_name, e.val, limit + 1, TRUE, searchFail)
        calls == {Call("embed", OLLAMA_URL, ~e.exc), Call("search", collection_name, ~r.exc)}
    IN  IF e.exc
        THEN {[ret |-> "List", result |-> <<>>, calls |-> {Call("embed", OLLAMA_URL, FALSE)}]}
        ELSE IF r.exc THEN {[ret |-> "List", result |-> <<>>, calls |-> calls]}
        ELSE {[ret |-> "List", result |-> x, calls |-> calls] : x \in r.results}

\* the possible outcomes of one search: [ret, result, calls]
search_similar(st, user, collection_type, query_text, limit, resp, searchFail) ==
    LET collection_name == _get_collection_name(user, collection_type)
        e == get_embedding(query_text, resp)
        r == StoreSearch(st, collection_name, e.val, limit, TRUE, searchFail)
        calls == {Call("embed", OLLAMA_URL, ~e.exc), Call("search", collection_name, ~r.exc)}
    IN  IF e.exc
        THEN {[ret |-> "List", result |-> <<>>, calls |-> {Call("embed", OLLAMA_URL, FALSE)}]}
        ELSE IF r.exc THEN {[ret |-> "List", result |-> <<>>, calls |-> calls]}
        ELSE {[ret |-> "List", result |-> x, calls |-> calls] : x \in r.results}

(***************************************************************************)
(* src/setup_profile.py                                                    *)
(***************************************************************************)
upload_profile_command(st, user, file, createFail, resps, upsertFail) ==
    LET v == validate_json_file(file)
        r == upload_profile(st, user, file, createFail, resps, upsertFail)
    IN  IF ~path_exists(file) THEN Out("False", st, {})
        ELSE IF v.exc THEN Out("Raise", st, {})
        ELSE IF ~v.val THEN Out("False", st, {})
        ELSE IF r.ret = "Raise" THEN Out("False", r.store, r.calls)
        ELSE r

setup_conversation_command(st, user, createFail, infoFail) ==
    LET r == setup_conversation_collection(st, user, createFail, infoFail)
    IN  IF r.ret = "Raise" THEN Out("False", r.store, r.calls) ELSE r

\* an exit status that is 1 only for a command that returned False
ExitCode_OnlyFalseFails(connected, cmdRet) ==
    IF ~connected THEN 1
    ELSE IF cmdRet = "Raise" THEN 1
    ELSE IF cmdRet = "False" THEN 1
    ELSE 0

\* sys.exit(0) / sys.exit(1); an exception that leaves main ends the
\* interpreter with status 1
ExitCode(connected, cmdRet) ==
    IF ~connected THEN 1
    ELSE IF cmdRet = "Raise" THEN 1
    ELSE IF cmdRet = "True" THEN 0
    ELSE 1

\* json_file is "" when the positional is absent (None) or empty: both are falsy
main(st, user, json_file, file, setup_conversations, connFail, createFail, resps, otherFail) ==
    LET cmd == IF json_file # ""
               THEN upload_profile_command(st, user, file, createFail, resps, otherFail)
               ELSE IF setup_conversations
               THEN setup_conversation_command(st, user, createFail, otherFail)
               ELSE Out("None", st, {})
    IN  IF connFail THEN [ret |-> "None", store |-> st, calls |-> {}, exit |-> ExitCode(FALSE, "None")]
        ELSE [ret |-> cmd.ret, store |-> cmd.store, calls |-> cmd.calls,
              exit |-> ExitCode(TRUE, cmd.ret)]

(***************************************************************************)
(* State                                                                   *)
(***************************************************************************)
VARIABLES
    user_id, \* self.user_id of the client
    store,   \* the vector store: collection name -> [size, distance, points]
    prev,    \* the store when the last operation started
    op,      \* the last operation and its arguments
    ret,     \* what it returned
    calls,   \* the calls it made to the embedding service and the store
    result,  \* the list search_similar returned
    exit,    \* the exit status of the last CLI run
    clock    \* datetime.now(): the number of add_conversation calls so far

vars == <<user_id, store, prev, op, ret, calls, result, exit, clock>>

NoExit == 0 - 1
NoStore == <<>>

\* the names this client derives for itself
OwnNames(u) == {_get_collection_name(u, b) : b \in BaseNames}

\* a store fault hits the create call, a later call of the operation, or none;
\* two faults in one operation end as one of these does
Faults == {"none", "create", "later"}

\* the answers of the embedding service during one operation: all "ok" but
\* the one to call number `at`
Answers(at, kind) == [k \in 1..MaxBlocks |-> IF k = at THEN kind ELSE "ok"]
AnswersFor(file) ==
    {Answers(1, "ok")} \cup
    {Answers(at, kind) : at \in 1..Len(file.value), kind \in Responses}
FaultsFor(file) == IF file.kind = "json" THEN Faults ELSE {"none"}

Op(name) ==
    [name |-> name, file |-> NoFile, target |-> "", size |-> 0,
     query |-> "", limit |-> 0, json_file |-> "", setup |-> FALSE,
     user_message |-> "", assistant_response |-> ""]

\* __init__: the client of one user, in front of an empty store
Init ==
    /\ user_id \in Users
    /\ store = NoStore
    /\ prev = NoStore
    /\ op = Op("init")
    /\ ret = "None"
    /\ calls = {}
    /\ result = <<>>
    /\ exit = NoExit
    /\ clock = 0

Finish(o, r) ==
    /\ prev' = store
    /\ op' = o
    /\ store' = r.store
    /\ ret' = r.ret
    /\ calls' = r.calls
    /\ UNCHANGED user_id

CreateCollection ==
    \E name \in OwnNames(user_id), size \in VectorSizes, fail \in BOOLEAN :
        /\ Finish([Op("create_collection") EXCEPT !.target = name, !.size = size],
                  create_collection(store, name, size, fail))
        /\ result' = <<>>
        /\ exit' = NoExit
        /\ UNCHANGED clock

UploadProfile ==
    \E f \in Files :
        \E fault \in FaultsFor(f), resps \in AnswersFor(f) :
            /\ Finish([Op("upload_profile") EXCEPT !.file = f],
                      upload_profile(store, user_id, f, fault = "create", resps,
                                     fault = "later"))
            /\ result' = <<>>
            /\ exit' = NoExit
            /\ UNCHANGED clock

SetupConversationCollection ==
    \E fault \in Faults :
        /\ Finish(Op("setup_conversation_collection"),
                  setup_conversation_collection(store, user_id, fault = "create",
                                                fault = "later"))
        /\ result' = <<>>
        /\ exit' = NoExit
        /\ UNCHANGED clock

AddConversation ==
    \E um \in UserMessages, ar \in AssistantResponses, resp \in Responses,
       upsertFail \in BOOLEAN :
        /\ clock < MaxConv
        /\ Finish([Op("add_conversation") EXCEPT !.user_message = um,
                                                  !.assistant_response = ar],
                  add_conversation(store, user_id, um, ar, resp, upsertFail, clock))
        /\ clock' = clock + 1
        /\ result' = <<>>
        /\ exit' = NoExit

SearchSimilar ==
    \E t \in CollectionTypes, q \in Texts, limit \in Limits,
       resp \in Responses, searchFail \in BOOLEAN :
        \E r \in search_similar(store, user_id, t, q, limit, resp, searchFail) :
            /\ Finish([Op("search_similar") EXCEPT !.target = t, !.query = q,
                                                   !.limit = limit],
                      [ret |-> r.ret, store |-> store, calls |-> r.calls])
            /\ result' = r.result
            /\ exit' = NoExit
            /\ UNCHANGED clock

\* one run of the command line that got past argument parsing: a positional
\* json_file (possibly empty) or --setup-conversations, never both
MainRun(json_file, f, setup, connFail, fault, resps) ==
    LET r == main(store, user_id, json_file, f, setup, connFail,
                  fault = "create", resps, fault = "later")
    IN  /\ Finish([Op("main") EXCEPT !.json_file = json_file, !.file = f, !.setup = setup], r)
        /\ exit' = r.exit
        /\ result' = <<>>
        /\ UNCHANGED clock

Main ==
    \/ \E f \in Files :
           \E fault \in FaultsFor(f), resps \in AnswersFor(f) :
               MainRun("profile.json", f, FALSE, FALSE, fault, resps)
    \/ \E fault \in Faults :
           MainRun("", NoFile, TRUE, FALSE, fault, Answers(1, "ok"))
    \/ MainRun("", NoFile, FALSE, FALSE, "none", Answers(1, "ok"))
    \/ \E json_file \in {"", "profile.json"} :
           MainRun(json_file, NoFile, json_file = "", TRUE, "none", Answers(1, "ok"))

(***************************************************************************)
(* Specifications, each from a fresh client in front of an empty store:    *)
(* Spec runs the profile operations and the command line, SpecConv the     *)
(* conversation operations and the search.                                 *)
(***************************************************************************)
Next ==
    \/ CreateCollection
    \/ UploadProfile
    \/ SetupConversationCollection
    \/ Main

NextConv ==
    \/ SetupConversationCollection
    \/ CreateCollection
    \/ AddConversation
    \/ SearchSimilar

Spec == Init /\ [][Next]_vars
SpecConv == Init /\ [][NextConv]_vars

(***************************************************************************)
(* Vocabulary of the properties                                            *)
(***************************************************************************)
ProfileName == _get_collection_name(user_id, "profile")
ConvName == _get_collection_name(user_id, "conversations")

\* the last operation ran upload_profile: directly, or from the command line
\* with an existing, readable file
RanUpload ==
    \/ op.name = "upload_profile"
    \/ op.name = "main" /\ op.json_file # "" /\ ret \in {"True", "False"}
       /\ op.file.kind = "json"
RanSetup ==
    \/ op.name = "setup_conversation_collection"
    \/ op.name = "main" /\ op.setup /\ ret \in {"True", "False"}

NBlocks == Len(op.file.value)
IdsOf(file) == {file.value[k].id : k \in 1..Len(file.value)}
\* the blocks of the file that carry the id
BlocksWith(file, id) == {file.value[k] : k \in {j \in 1..Len(file.value) : file.value[j].id = id}}

Called(kind) == \E c \in calls : c.kind = kind
Failed(kind) == \E c \in calls : c.kind = kind /\ ~c.ok
Succeeded(kind) == \E c \in calls : c.kind = kind /\ c.ok

(***************************************************************************)
(* C1                                                                      *)
(***************************************************************************)
\* C1 as stated: whenever upload_profile returns True for a file of N blocks,
\* {user_id}_profile holds exactly N points afterwards, whatever the block ids
\* and whatever the collection held before.
C1_ExactlyNPoints ==
    (RanUpload /\ ret = "True") => PointCount(store, ProfileName) = NBlocks

\* C1 amended: after a successful upload the ids of {user_id}_profile are the
\* ids it held before together with the ids of the blocks, each block id
\* carrying the text and category of a block with that id; so the collection
\* holds exactly N points when the N ids are pairwise distinct and the
\* collection held no other id before.
C1_PointsAfterUpload ==
    (RanUpload /\ ret = "True") =>
        LET ids == IdsOf(op.file)
            before == DOMAIN PointsIn(prev, ProfileName)
            after == PointsIn(store, ProfileName)
        IN  /\ DOMAIN after = before \cup ids
            /\ \A i \in ids :
                   \E b \in BlocksWith(op.file, i) :
                       /\ after[i].payload.text = b.text
                       /\ after[i].payload.category = b.category
            /\ (Cardinality(ids) = NBlocks /\ before \subseteq ids)
                   => PointCount(store, ProfileName) = NBlocks

\* a second successful upload of two blocks with distinct ids over the same ids
C1_Witness ==
    /\ RanUpload /\ ret = "True"
    /\ NBlocks = 2 /\ Cardinality(IdsOf(op.file)) = 2
    /\ DOMAIN PointsIn(prev, ProfileName) = IdsOf(op.file)
    /\ PointCount(store, ProfileName) = 2

(***************************************************************************)
(* C2                                                                      *)
(***************************************************************************)
\* the store after one more successful run of the same upload
RerunStores ==
    {r.store : r \in {x \in {upload_profile(store, user_id, op.file, fault = "create",
                                            resps, fault = "later") :
                                 fault \in Faults, resps \in AnswersFor(op.file)} :
                        x.ret = "True"}}

C3_InvalidFileNoCalls ==
    (/\ \/ op.name = "upload_profile"
        \/ op.name = "main" /\ op.json_file # "" /\ ret # "None"
     /\ op.file.kind \in {"missing", "invalid"})
        => /\ ret = "False"
           /\ calls = {}
           /\ store = prev
           /\ op.name = "main" => exit = 1

\* an upload of a file that is not JSON, when the profile collection is absent
C3_Witness ==
    /\ op.name = "upload_profile"
    /\ op.file.kind = "invalid"
    /\ ret = "False"
    /\ ~Exists(store, ProfileName)

(***************************************************************************)
(* C4                                                                      *)
(***************************************************************************)
\* C4: no failure of the file read, the embedding service or the store leaves
\* an operation as an exception: the operations and the two CLI commands
\* return a bool, and every failed external call makes that bool False.
C4_NoExceptionEscapes ==
    /\ ret # "Raise"
    /\ (op.name \in {"create_collection", "upload_profile",
                     "setup_conversation_collection", "main"}
        /\ (Failed("embed") \/ Failed("upsert") \/ Failed("get")))
           => ret = "False"

(***************************************************************************)
(* C5                                                                      *)
(***************************************************************************)
\* C5: when an embedding call fails during upload_profile, the upload returns
\* False, issues no upsert, and {user_id}_profile holds the points it held
\* before.
C5_EmbeddingFailureAborts ==
    (RanUpload /\ Failed("embed"))
        => /\ ret = "False"
           /\ ~Called("upsert")
           /\ PointsIn(store, ProfileName) = PointsIn(prev, ProfileName)

\* the second block's embedding fails after the first one's succeeded, on a
\* collection that holds a point
C5_Witness ==
    /\ op.name = "upload_profile"
    /\ Failed("embed") /\ Succeeded("embed")
    /\ PointCount(prev, ProfileName) = 1
    /\ PointCount(store, ProfileName) = 1

(***************************************************************************)
(* C6                                                                      *)
(***************************************************************************)
\* C6: a CLI run exits 0 exactly when its chosen operation returned True, and
\* 1 otherwise (no connection, no operation run, an operation that failed).
C6_ExitCode ==
    op.name = "main" =>
        /\ exit \in {0, 1}
        /\ exit = 0 <=> ret = "True"

\* runs that exit 0 change the store
C6_Witness ==
    /\ op.name = "main"
    /\ exit = 0
    /\ store # prev

C8_OwnCollectionsOnly ==
    /\ \A c \in calls :
           c.kind # "embed" =>
               /\ c.target \in OwnNames(user_id)
               /\ \A v \in Users \ {user_id} : c.target \notin OwnNames(v)
    /\ \A u, v \in Users, b, c \in BaseNames :
           _get_collection_name(u, b) = _get_collection_name(v, c) => u = v /\ b = c

(***************************************************************************)
(* C9                                                                      *)
(***************************************************************************)
\* C9: search_similar returns at most `limit` results (at most 3 with the
\* default limit), each the payload of a point of {user_id}_{collection_type}
\* scored against the query embedding, ordered by decreasing score; it returns
\* the empty list when the embedding call or the store search fails.
C9_SearchResults ==
    op.name = "search_similar" =>
        LET name == _get_collection_name(user_id, op.target)
            q == EmbeddingOf(op.query, "ok")
        IN  /\ ret = "List"
            /\ Len(result) <= op.limit
            /\ op.limit = DEFAULT_SEARCH_LIMIT => Len(result) <= 3
            /\ \A k \in 1..Len(result) :
                   /\ result[k].collection = name
                   /\ Exists(store, name)
                   /\ result[k].id \in DOMAIN store[name].points
                   /\ result[k].payload = store[name].points[result[k].id].payload
                   /\ result[k].score = Score(q, store[name].points[result[k].id].vector)
            /\ \A j, k \in 1..Len(result) :
                   j < k => result[j].score >= result[k].score /\ result[j].id # result[k].id
            /\ (Failed("embed") \/ Failed("search")) => result = <<>>
            /\ store = prev

\* two conversations come back, the nearer one first
C9_Witness ==
    /\ op.name = "search_similar"
    /\ op.target = "conversations"
    /\ Len(result) = 2
    /\ result[1].score > result[2].score

(***************************************************************************)
(* C10                                                                     *)
(***************************************************************************)
\* the point add_conversation added
NewPoints == DOMAIN PointsIn(store, ConvName) \ DOMAIN PointsIn(prev, ConvName)

AddedOne ==
    /\ PointCount(store, ConvName) = PointCount(prev, ConvName) + 1
    /\ \A i \in DOMAIN PointsIn(prev, ConvName) :
           i \in DOMAIN store[ConvName].points
           /\ store[ConvName].points[i] = prev[ConvName].points[i]
    /\ \A i \in NewPoints :
           LET pl == store[ConvName].points[i].payload
           IN  /\ pl.user_message = op.user_message
               /\ pl.assistant_response = op.assistant_response
               /\ pl.timestamp = clock - 1
               /\ pl.type = "conversation"

\* C10 as stated: add_conversation never creates a collection; without
\* {user_id}_conversations it returns False and changes nothing; with it, and
\* with an embedding call that succeeds, it returns True and adds one point
\* carrying user_message, assistant_response and a timestamp.
C10_AddAfterSetupSucceeds ==
    op.name = "add_conversation" =>
        /\ DOMAIN store = DOMAIN prev
        /\ ~Exists(prev, ConvName) => ret = "False" /\ store = prev
        /\ (Exists(prev, ConvName) /\ Succeeded("embed")) => ret = "True" /\ AddedOne

\* C10 amended: add_conversation never creates a collection; without
\* {user_id}_conversations it returns False and changes nothing; it returns
\* True exactly when the embedding call and the upsert both succeed, and then
\* it has added one point carrying user_message, assistant_response and a
\* timestamp, the other points unchanged; when it returns False the store is
\* as before.
C10_AddConversation ==
    op.name = "add_conversation" =>
        /\ DOMAIN store = DOMAIN prev
        /\ ~Exists(prev, ConvName) => ret = "False" /\ store = prev
        /\ ret = "True" <=> (Succeeded("embed") /\ Succeeded("upsert"))
        /\ ret = "True" => Exists(prev, ConvName) /\ AddedOne
        /\ ret = "False" => store = prev
        /\ ret \in {"True", "False"}

\* a second conversation added to the collection
C10_Witness ==
    /\ op.name = "add_conversation" /\ ret = "True"
    /\ PointCount(prev, ConvName) = 1
    /\ PointCount(store, ConvName) = 2

====
